---- MODULE Spec2Model ----
(***************************************************************************)
(* v2srt: video -> waveform -> audio segments -> transcripts -> batches   *)
(* -> translation -> numbered subtitle cues (src/v2srt.py).                *)
(*                                                                         *)
(* Text is modelled as a sequence of one-character strings, so that        *)
(* parsing, formatting, stripping and splitting are computed as the code   *)
(* computes them.  A float number of seconds that is a whole number of     *)
(* milliseconds is modelled by that number of milliseconds (an integer).   *)
(***************************************************************************)
EXTENDS Integers, Sequences, FiniteSets, TLC

VARIABLES
    \* ---- VideoHandler.run -------------------------------------------
    pc,            \* position of run()
    cut_times,     \* self.cut_times: sequence of TimeCode codes
    gemini_api_key,\* the gemini_api_key argument of __init__
    gemini_client, \* self.gemini_client is set (TRUE) or None (FALSE)
    wav_path,      \* path returned by video_to_wav
    pair_no,       \* cut_wav generator: number of pairs consumed
    i,             \* cut_wav generator: the local counter i
    gen_done,      \* cut_wav generator has returned (exhausted or break)
    yielded,       \* cut_wav: the (base_time, path) results yielded so far
    trims,         \* the external trim invocations issued so far
    seg_lens,      \* number of transcript segments of each audio segment read
    pos,           \* transcript segments of the current audio segment batched
    entries,       \* the dict `entries` of the current batch (index -> SRTEntry)
    base,          \* the local counter `base` of run()
    out,           \* every cue passed to fout.write, in write order
    flushed,       \* how many cues of `out` have reached the file on disk
    calls,         \* number of generate_content calls made
    reply,         \* response.text of the call for the batch being processed
    error,         \* what ended run(): "none" | "api" | "KeyError"
    \* ---- TimeCode, exercised on its own -----------------------------
    tc_pc,         \* "new" | "built" | "rejected" | "read" | "idle"
    tc_data,       \* the constructor argument: [kind, val]
    tc_code,       \* self.code of the constructed TimeCode
    tc_secs        \* value of the seconds property, in milliseconds

run_vars == <<pc, cut_times, gemini_api_key, gemini_client, wav_path, pair_no, i, gen_done,
              yielded, trims, seg_lens, pos, entries, base, out, flushed,
              calls, reply, error>>
tc_vars == <<tc_pc, tc_data, tc_code, tc_secs>>
vars == <<run_vars, tc_vars>>

(***************************************************************************)
(* Text helpers                                                            *)
(***************************************************************************)
NL == "\n"
Whitespace == {" ", "\t", NL}
DigitChars == <<"0", "1", "2", "3", "4", "5", "6", "7", "8", "9">>
IsDigit(c) == \E d \in 1..10 : DigitChars[d] = c
DigitVal(c) == (CHOOSE d \in 1..10 : DigitChars[d] = c) - 1

MinOf(S) == CHOOSE x \in S : \A y \in S : x <= y
MaxOf(S) == CHOOSE x \in S : \A y \in S : x >= y

\* str(n) for a natural number n
RECURSIVE ToDigits(_)
ToDigits(n) == IF n < 10 THEN <<DigitChars[n + 1]>>
               ELSE ToDigits(n \div 10) \o <<DigitChars[(n % 10) + 1]>>

\* the format spec {n:0w}: zero-padded to at least w characters
RECURSIVE ZeroPad(_, _)
ZeroPad(s, w) == IF Len(s) >= w THEN s ELSE ZeroPad(<<"0">> \o s, w)

\* int(s) for a string of decimal digits; -1 stands for the ValueError
RECURSIVE DigitsVal(_)
DigitsVal(s) == IF Len(s) = 0 THEN 0
                ELSE 10 * DigitsVal(SubSeq(s, 1, Len(s) - 1)) + DigitVal(s[Len(s)])
ParseInt(s) == IF Len(s) > 0 /\ \A k \in 1..Len(s) : IsDigit(s[k])
               THEN DigitsVal(s) ELSE -1

\* str.split(sep) for a one-character separator
RECURSIVE Split(_, _)
Split(s, sep) ==
    IF \A k \in 1..Len(s) : s[k] # sep THEN <<s>>
    ELSE LET k == MinOf({j \in 1..Len(s) : s[j] = sep})
         IN  <<SubSeq(s, 1, k - 1)>> \o Split(SubSeq(s, k + 1, Len(s)), sep)

\* str.strip()
Strip(s) ==
    LET keep == {k \in 1..Len(s) : s[k] \notin Whitespace}
    IN  IF keep = {} THEN <<>> ELSE SubSeq(s, MinOf(keep), MaxOf(keep))

\* "\n".join(lines)
RECURSIVE Join(_)
Join(lines) == IF Len(lines) = 0 THEN <<>>
               ELSE IF Len(lines) = 1 THEN lines[1]
               ELSE lines[1] \o <<NL>> \o Join(Tail(lines))

\* re.match of a pattern made of \d ("d") and literal characters: the
\* pattern must match at the start of the string; nothing anchors its end.
ReMatch(pattern, data) ==
    /\ Len(data) >= Len(pattern)
    /\ \A k \in 1..Len(pattern) :
          IF pattern[k] = "d" THEN IsDigit(data[k]) ELSE data[k] = pattern[k]

seconds_pattern ==
    <<"d", "d", ":", "d", "d", ":", "d", "d", ",", "d", "d", "d">>
seconds_with_milliseconds_pattern ==
    <<"d", "d", ":", "d", "d", ":", "d", "d">>

(***************************************************************************)
(* TimeCode                                                                *)
(***************************************************************************)
\* the mistake of dropping `% 3600` from the minutes field
seconds_to_code_minutes_slip(ms) ==
    LET whole == ms \div 1000
    IN  ZeroPad(ToDigits(whole \div 3600), 2) \o <<":">>
        \o ZeroPad(ToDigits(whole \div 60), 2) \o <<":">>
        \o ZeroPad(ToDigits(whole % 60), 2) \o <<",">>
        \o ZeroPad(ToDigits(ms % 1000), 3)

\* TimeCode.seconds_to_code; the argument is the float in milliseconds, so
\* int(seconds) is ms \div 1000 and round((seconds - int(seconds)) * 1000)
\* is ms % 1000 (the float error is far below half a millisecond).
seconds_to_code(ms) ==
    LET whole   == ms \div 1000
        hours   == whole \div 3600
        minutes == (whole % 3600) \div 60
        secs    == whole % 60
        millis  == ms % 1000
    IN  ZeroPad(ToDigits(hours), 2) \o <<":">>
        \o ZeroPad(ToDigits(minutes), 2) \o <<":">>
        \o ZeroPad(ToDigits(secs), 2) \o <<",">>
        \o ZeroPad(ToDigits(millis), 3)

\* the seconds property, in milliseconds; -1 stands for the ValueError of
\* a failed unpacking or int()
seconds(code) ==
    LET parts == Split(code, ":")
    IN  IF Len(parts) # 3 THEN -1
        ELSE LET rest == Split(parts[3], ",")
                 h    == ParseInt(parts[1])
                 m    == ParseInt(parts[2])
                 s    == ParseInt(rest[1])
                 ms   == IF Len(rest) = 1 THEN 0
                         ELSE IF Len(rest) = 2 THEN ParseInt(rest[2]) ELSE -1
             IN  IF h < 0 \/ m < 0 \/ s < 0 \/ ms < 0 THEN -1
                 ELSE (h * 3600 + m * 60 + s) * 1000 + ms

\* TimeCode.__init__: [ok |-> TRUE, code |-> ...] or the TypeError
TypeError == [ok |-> FALSE, code |-> <<>>]
TimeCode(data) ==
    IF data.kind = "float" THEN [ok |-> TRUE, code |-> seconds_to_code(data.val)]
    ELSE IF ReMatch(seconds_pattern, data.val) THEN [ok |-> TRUE, code |-> data.val]
    ELSE IF ReMatch(seconds_with_milliseconds_pattern, data.val)
         THEN [ok |-> TRUE, code |-> data.val \o <<",", "0", "0", "0">>]
    ELSE TypeError

Str(s) == [kind |-> "str", val |-> s]
Float(ms) == [kind |-> "float", val |-> ms]

ZeroCode == <<"0", "0", ":", "0", "0", ":", "0", "0", ",", "0", "0", "0">>

\* the mistake of testing the wrong literal
is_zero_slip(code) == code = <<"0", "0", ":", "0", "0", ":", "0", "0">>

\* TimeCode.is_zero
is_zero(code) == code = ZeroCode

\* TimeCode.without_millis (codes of the canonical form have one comma)
without_millis(code) == Split(code, ",")[1]

\* TimeCode.add: the code of the sum
add(a, b) == TimeCode(Float(seconds(a) + seconds(b))).code

(***************************************************************************)
(* TimeCode on its own: construction from a string or a float, then the    *)
(* seconds property.                                                       *)
(***************************************************************************)
MaxHours == 99

StrBodies == { <<"0", "0", ":", "0", "0", ":", "0", "5", ",", "2", "5", "0">>,
               <<"0", "1", ":", "0", "2", ":", "0", "3">>,
               <<"0", ":", "0", ":", "5">>,
               <<"0", "0", ":", "0", "0", ":", "0", "5", ",", "2", "5">>,
               <<"a", "b">>,
               <<>> }
StrEdges == { <<>>, <<"x">>, <<" ">> }
StrInputs == { p \o b \o s : p \in StrEdges, b \in StrBodies, s \in StrEdges }

HourSamples == {0, 1, 9, 10, MaxHours}
MinuteSamples == {0, 1, 59}
SecondSamples == {0, 9, 59}
MilliSamples == {0, 1, 9, 10, 99, 100, 999}
FloatInputs == { ((h * 3600 + m * 60 + s) * 1000) + ms :
                    h \in HourSamples, m \in MinuteSamples,
                    s \in SecondSamples, ms \in MilliSamples }

TCIdle ==
    /\ tc_pc = "idle"
    /\ tc_data = Str(<<>>)
    /\ tc_code = <<>>
    /\ tc_secs = 0

RunIdle ==
    /\ pc = "idle"
    /\ cut_times = <<>>
    /\ gemini_api_key = <<>>
    /\ gemini_client = FALSE
    /\ wav_path = <<>>
    /\ pair_no = 0
    /\ i = 1
    /\ gen_done = FALSE
    /\ yielded = <<>>
    /\ trims = <<>>
    /\ seg_lens = <<>>
    /\ pos = 0
    /\ entries = <<>>
    /\ base = 1
    /\ out = <<>>
    /\ flushed = 0
    /\ calls = 0
    /\ reply = <<>>
    /\ error = "none"

InitTC ==
    /\ RunIdle
    /\ tc_pc = "new"
    /\ tc_data \in {Str(s) : s \in StrInputs} \cup {Float(x) : x \in FloatInputs}
    /\ tc_code = <<>>
    /\ tc_secs = 0

\* TimeCode(data)
TCConstruct ==
    /\ tc_pc = "new"
    /\ LET r == TimeCode(tc_data)
       IN  /\ tc_pc' = IF r.ok THEN "built" ELSE "rejected"
           /\ tc_code' = r.code
    /\ UNCHANGED <<tc_data, tc_secs, run_vars>>

\* reading .seconds of the constructed TimeCode
TCSeconds ==
    /\ tc_pc = "built"
    /\ tc_secs' = seconds(tc_code)
    /\ tc_pc' = "read"
    /\ UNCHANGED <<tc_data, tc_code, run_vars>>

NextTC == TCConstruct \/ TCSeconds

SpecTC == InitTC /\ [][NextTC]_vars

\* "a string of the form HH:MM:SS,mmm" / "of the form HH:MM:SS"
IsFullForm(s) == Len(s) = Len(seconds_pattern) /\ ReMatch(seconds_pattern, s)
IsShortForm(s) == /\ Len(s) = Len(seconds_with_milliseconds_pattern)
                  /\ ReMatch(seconds_with_milliseconds_pattern, s)

\* C9: construction from a string has exactly three outcomes: HH:MM:SS,mmm
\* is kept unchanged, HH:MM:SS gets ",000" appended, and every other string
\* is rejected with the TypeError.
C9_ThreeOutcomes ==
    (tc_pc \in {"built", "rejected", "read"} /\ tc_data.kind = "str") =>
        IF IsFullForm(tc_data.val)
        THEN tc_pc # "rejected" /\ tc_code = tc_data.val
        ELSE IF IsShortForm(tc_data.val)
        THEN tc_pc # "rejected" /\ tc_code = tc_data.val \o <<",", "0", "0", "0">>
        ELSE tc_pc = "rejected"

\* C10: for a float of whole milliseconds in [0, 359999], the code made by
\* seconds_to_code reads back through the seconds property to within one
\* millisecond of the float.
C10_RoundTrip ==
    (tc_pc = "read" /\ tc_data.kind = "float") =>
        /\ tc_secs - tc_data.val <= 1
        /\ tc_data.val - tc_secs <= 1

C10_Witness ==
    /\ tc_pc = "read"
    /\ tc_data.kind = "float"
    /\ tc_data.val = ((MaxHours * 3600 + 59 * 60 + 59) * 1000) + 999
    /\ tc_secs = tc_data.val

(***************************************************************************)
(* SRTEntry and the translator                                             *)
(***************************************************************************)
\* SRTEntry.__init__
SRTEntry(index, start_time, end_time, text) ==
    [index      |-> index,
     start_time |-> TimeCode(Str(start_time)).code,
     end_time   |-> TimeCode(Str(end_time)).code,
     text       |-> Strip(text)]

\* re.match(r'\[(\d+)\]\s*(.+)', line) on a stripped line:
\* "[", a maximal run of digits, "]", optional whitespace, a non-empty rest
MatchLine(line) ==
    LET nondigit == {k \in 2..Len(line) : ~IsDigit(line[k])}
        close    == IF nondigit = {} THEN 0 ELSE MinOf(nondigit)
        rest     == SubSeq(line, close + 1, Len(line))
    IN  IF /\ Len(line) >= 1
           /\ line[1] = "["
           /\ close >= 3
           /\ line[close] = "]"
           /\ Len(rest) >= 1
        THEN [matched |-> TRUE,
              index   |-> DigitsVal(SubSeq(line, 2, close - 1)),
              text    |-> Strip(rest)]
        ELSE [matched |-> FALSE, index |-> 0, text |-> <<>>]

\* the loop over the reply's lines (lines 115-127); ok = FALSE is the
\* KeyError of entries[index] for an index that is no key of the batch
RECURSIVE ApplyLines(_, _)
ApplyLines(ents, lines) ==
    IF Len(lines) = 0 THEN [ok |-> TRUE, entries |-> ents]
    ELSE LET line == Strip(lines[1])
             m    == MatchLine(line)
         IN  IF Len(line) = 0 \/ ~m.matched THEN ApplyLines(ents, Tail(lines))
             ELSE IF m.index \notin DOMAIN ents THEN [ok |-> FALSE, entries |-> ents]
             ELSE ApplyLines([ents EXCEPT ![m.index].text = m.text], Tail(lines))

\* VideoHandler.translate_batch, given response.text
translate_batch(ents, translation_text) ==
    ApplyLines(ents, Split(Strip(translation_text), NL))

(***************************************************************************)
(* VideoHandler                                                            *)
(***************************************************************************)
translate_threshold == 50

\* the mistake of building the client whatever the key is
MakeClient_always(key) == TRUE

\* __init__: `if gemini_api_key:` decides whether a client exists
MakeClient(key) == Len(key) > 0

\* the mistake of restarting the numbering with every batch
NextBase_reset(b, batch) == Len(batch) + 1

\* base += len(batch)
NextBase(b, batch) == b + Len(batch)

\* the dict comprehension of lines 54-55
MakeEntries(b, batch) ==
    [k \in b..(b + Len(batch) - 1) |->
        SRTEntry(k, batch[k - b + 1].from, batch[k - b + 1].to, batch[k - b + 1].text)]

\* entries.values(), in insertion order
Values(ents) ==
    IF DOMAIN ents = {} THEN <<>>
    ELSE LET lo == MinOf(DOMAIN ents)
         IN  [k \in 1..Cardinality(DOMAIN ents) |-> ents[lo + k - 1]]

\* the mistake of leaving the flush out
Flush_missing(o, f) == f

\* fout.flush(): everything written so far reaches the file
Flush(o, f) == Len(o)

\* the mistake of losing the buffered cues when the file is closed
CloseFile_lossy(o, f) == f

\* leaving the `with open(...)` block, normally or by an exception,
\* closes the file, which writes out its buffer
CloseFile(o, f) == Len(o)

\* os.path.splitext(path)[0]
Basename(path) ==
    LET dots == {k \in 1..Len(path) : path[k] = "."}
    IN  IF dots = {} THEN path ELSE SubSeq(path, 1, MaxOf(dots) - 1)

\* the mistake of numbering the segment files from 0
SegmentPath_from_zero(basename, n) ==
    basename \o <<"-">> \o ToDigits(n - 1) \o <<".", "w", "a", "v">>

\* f"{basename}-{i}.wav"
SegmentPath(basename, n) ==
    basename \o <<"-">> \o ToDigits(n) \o <<".", "w", "a", "v">>

\* the boundary list of line 77; the last element is the string 'end'
EndMark == [is_tc |-> FALSE, code |-> <<"e", "n", "d">>]
Boundaries(cuts) ==
    <<[is_tc |-> TRUE, code |-> ZeroCode]>>
    \o [k \in 1..Len(cuts) |-> [is_tc |-> TRUE, code |-> cuts[k]]]
    \o <<EndMark>>

\* pairwise(...)
Pairwise(s) == [k \in 1..(Len(s) - 1) |-> <<s[k], s[k + 1]>>]

\* one resumption of the generator cut_wav: what it yields, the trim it
\* runs, and its state afterwards (the `break` after the first yield of
\* the zero-cut case is taken at once, nothing happens in between)
cut_wav(path, cuts, consumed, n, done) ==
    LET pairs == Pairwise(Boundaries(cuts))
    IN  IF done \/ consumed >= Len(pairs)
        THEN [stop |-> TRUE, value |-> <<>>, trim |-> <<>>,
              consumed |-> consumed, i |-> n, done |-> TRUE]
        ELSE LET start == pairs[consumed + 1][1]
                 to    == pairs[consumed + 1][2]
             IN  IF is_zero(start.code) /\ to = EndMark
                 THEN [stop |-> FALSE,
                       value |-> [base_time |-> start.code, path |-> path],
                       trim |-> <<>>,
                       consumed |-> consumed + 1, i |-> n, done |-> TRUE]
                 ELSE LET output_path == SegmentPath(Basename(path), n)
                          cmd == [input |-> path,
                                  ss |-> <<without_millis(start.code)>>,
                                  to |-> IF to # EndMark
                                         THEN <<without_millis(to.code)>>
                                         ELSE <<>>,
                                  output |-> output_path]
                      IN  [stop |-> FALSE,
                           value |-> [base_time |-> start.code, path |-> output_path],
                           trim |-> <<cmd>>,
                           consumed |-> consumed + 1, i |-> n + 1, done |-> FALSE]

(***************************************************************************)
(* The inputs of a run                                                     *)
(***************************************************************************)
MaxCuts == 1
MaxReplyLines == 2

\* --cut-times arguments; main() turns each into a TimeCode
CutArgs == { <<"0", "0", ":", "0", "0", ":", "0", "0">>,
             <<"0", "0", ":", "0", "0", ":", "0", "5">>,
             <<"0", "0", ":", "1", "0", ":", "0", "0", ",", "5", "0", "0">> }
CutLists ==
    UNION { [1..k -> {TimeCode(Str(a)).code : a \in CutArgs}] : k \in 0..MaxCuts }

\* --gemini-key: absent, or some key
ApiKeys == { <<>>, <<"k">> }

\* the path video_to_wav returns
WavFile == <<"t", "/", "v", ".", "w", "a", "v">>

\* transcripts: the j-th transcript segment of an audio segment, with
\* times relative to the start of that audio segment
RawTexts == << <<" ", "a">>, <<"b", " ">>, <<"c", " ", "d">> >>
TranscriptEntry(j) ==
    [from |-> seconds_to_code((j - 1) * 2000),
     to   |-> seconds_to_code(((j - 1) * 2000) + 1500),
     text |-> RawTexts[(j % 3) + 1]]
Transcript(n) == [j \in 1..n |-> TranscriptEntry(j)]
TranscriptLens == {0, 3, translate_threshold + 1}

\* replies of the translation endpoint: up to MaxReplyLines lines
ReplyLines ==
    { <<"[", "1", "]", " ", "h", "i">>,
      <<" ", "[", "3", "]", " ", " ", "y", "o", " ">>,
      <<"[", "5", "1", "]", "z">>,
      <<"[", "2", "]">>,
      <<"n", "o", "i", "s", "e", " ", "l", "i", "n", "e">> }
Replies == { Join(ls) : ls \in UNION { [1..k -> ReplyLines] : k \in 0..MaxReplyLines } }

(***************************************************************************)
(* VideoHandler.run                                                        *)
(***************************************************************************)
Init ==
    /\ TCIdle
    /\ pc = "start"
    /\ cut_times \in CutLists
    /\ gemini_api_key \in ApiKeys
    /\ gemini_client = MakeClient(gemini_api_key)
    /\ wav_path = <<>>
    /\ pair_no = 0
    /\ i = 1
    /\ gen_done = FALSE
    /\ yielded = <<>>
    /\ trims = <<>>
    /\ seg_lens = <<>>
    /\ pos = 0
    /\ entries = <<>>
    /\ base = 1
    /\ out = <<>>
    /\ flushed = 0
    /\ calls = 0
    /\ reply = <<>>
    /\ error = "none"

\* lines 40-43: video_to_wav, the output file is opened, base = 1
VideoToWav ==
    /\ pc = "start"
    /\ wav_path' = WavFile
    /\ base' = 1
    /\ pc' = "cut"
    /\ UNCHANGED <<cut_times, gemini_api_key, gemini_client, pair_no, i, gen_done, yielded, trims,
                   seg_lens, pos, entries, out, flushed, calls, reply, error, tc_vars>>

\* line 44: the for loop takes the next (base_time, cut_wav_path)
NextSegment ==
    /\ pc = "cut"
    /\ LET r == cut_wav(wav_path, cut_times, pair_no, i, gen_done)
       IN  /\ ~r.stop
           /\ yielded' = Append(yielded, r.value)
           /\ trims' = trims \o r.trim
           /\ pair_no' = r.consumed
           /\ i' = r.i
           /\ gen_done' = r.done
    /\ pc' = "transcribe"
    /\ UNCHANGED <<cut_times, gemini_api_key, gemini_client, wav_path, seg_lens, pos, entries, base,
                   out, flushed, calls, reply, error, tc_vars>>

\* line 44: cut_wav is exhausted; the with block ends and closes the file
Finish ==
    /\ pc = "cut"
    /\ LET r == cut_wav(wav_path, cut_times, pair_no, i, gen_done)
       IN  /\ r.stop
           /\ gen_done' = r.done
    /\ flushed' = CloseFile(out, flushed)
    /\ pc' = "done"
    /\ UNCHANGED <<cut_times, gemini_api_key, gemini_client, wav_path, pair_no, i, yielded, trims,
                   seg_lens, pos, entries, base, out, calls, reply, error, tc_vars>>

\* lines 46-50: the transcriber runs and its JSON document is loaded
Transcribe ==
    /\ pc = "transcribe"
    /\ \E n \in TranscriptLens : seg_lens' = Append(seg_lens, n)
    /\ pos' = 0
    /\ pc' = "batch"
    /\ UNCHANGED <<cut_times, gemini_api_key, gemini_client, wav_path, pair_no, i, gen_done, yielded,
                   trims, entries, base, out, flushed, calls, reply, error, tc_vars>>

\* data['transcription'] of the audio segment being processed
Data == Transcript(seg_lens[Len(seg_lens)])

\* lines 52-58: the next batch of at most translate_threshold transcript
\* segments becomes the dict entries, and base moves past it
NextBatch ==
    /\ pc = "batch"
    /\ pos < Len(Data)
    /\ LET last  == IF pos + translate_threshold < Len(Data)
                    THEN pos + translate_threshold ELSE Len(Data)
           batch == SubSeq(Data, pos + 1, last)
       IN  /\ entries' = MakeEntries(base, batch)
           /\ base' = NextBase(base, batch)
           /\ pos' = last
    /\ pc' = IF gemini_client THEN "translate" ELSE "write"
    /\ UNCHANGED <<cut_times, gemini_api_key, gemini_client, wav_path, pair_no, i, gen_done, yielded,
                   trims, seg_lens, out, flushed, calls, reply, error, tc_vars>>

\* line 59: translate_batch with a reply from the endpoint; a KeyError
\* raised while the reply is applied leaves run() through the with block
TranslateBatch ==
    /\ pc = "translate"
    /\ \E text \in Replies :
          LET r == translate_batch(entries, text)
          IN  /\ reply' = text
              /\ entries' = r.entries
              /\ IF r.ok
                 THEN /\ pc' = "write"
                      /\ UNCHANGED <<flushed, error>>
                 ELSE /\ pc' = "aborted"
                      /\ error' = "KeyError"
                      /\ flushed' = CloseFile(out, flushed)
    /\ calls' = calls + 1
    /\ UNCHANGED <<cut_times, gemini_api_key, gemini_client, wav_path, pair_no, i, gen_done, yielded,
                   trims, seg_lens, pos, base, out, tc_vars>>

\* lines 106-109: generate_content raises (network or API error); nothing
\* catches it, so run() is left through the with block
TranslateRaises ==
    /\ pc = "translate"
    /\ calls' = calls + 1
    /\ error' = "api"
    /\ flushed' = CloseFile(out, flushed)
    /\ pc' = "aborted"
    /\ UNCHANGED <<cut_times, gemini_api_key, gemini_client, wav_path, pair_no, i, gen_done, yielded,
                   trims, seg_lens, pos, entries, base, out, reply, tc_vars>>

\* lines 61-62: the cues of the batch are written.  They stay in the file
\* object's buffer: the cues of the runs modelled here (a few kilobytes in
\* all) never fill the buffer of io.DEFAULT_BUFFER_SIZE bytes, so nothing
\* reaches the file before a flush or the close.
WriteBatch ==
    /\ pc = "write"
    /\ out' = out \o Values(entries)
    /\ reply' = <<>>
    /\ pc' = "batch"
    /\ UNCHANGED <<cut_times, gemini_api_key, gemini_client, wav_path, pair_no, i, gen_done, yielded,
                   trims, seg_lens, pos, entries, base, flushed, calls, error, tc_vars>>

\* line 64: after the last batch of the audio segment, fout.flush()
EndSegment ==
    /\ pc = "batch"
    /\ pos >= Len(Data)
    /\ flushed' = Flush(out, flushed)
    /\ pc' = "cut"
    /\ UNCHANGED <<cut_times, gemini_api_key, gemini_client, wav_path, pair_no, i, gen_done, yielded,
                   trims, seg_lens, pos, entries, base, out, calls, reply, error, tc_vars>>

Next ==
    \/ VideoToWav
    \/ NextSegment
    \/ Finish
    \/ Transcribe
    \/ NextBatch
    \/ TranslateBatch
    \/ TranslateRaises
    \/ WriteBatch
    \/ EndSegment

Spec == Init /\ [][Next]_vars

(***************************************************************************)
(* Where a cue comes from                                                  *)
(***************************************************************************)
RECURSIVE SumSeq(_)
SumSeq(q) == IF Len(q) = 0 THEN 0 ELSE q[1] + SumSeq(Tail(q))

\* transcript segments of the audio segments before the s-th
Before(s) == SumSeq(SubSeq(seg_lens, 1, s - 1))

\* transcript segments turned into entries so far
Batched == IF Len(seg_lens) = 0 THEN 0 ELSE Before(Len(seg_lens)) + pos

\* the audio segment of the k-th transcript segment of the run, the
\* transcript segment itself, and the base time of its audio segment
SegOf(k) == MinOf({s \in 1..Len(seg_lens) : k <= Before(s) + seg_lens[s]})
RawOf(k) == TranscriptEntry(k - Before(SegOf(k)))
BaseTimeOf(k) == yielded[SegOf(k)].base_time

(***************************************************************************)
(* Properties of a run                                                     *)
(***************************************************************************)
\* C1: the indices of the cues written are 1, 2, ..., in write order, the
\* counter base is one more than the number of transcript segments taken
\* so far (it starts at 1 and is never reset), and a completed run has
\* written as many cues as there were transcript segments.
C1_Indices ==
    /\ \A k \in 1..Len(out) : out[k].index = k
    /\ pc \notin {"start"} => base = 1 + Batched
    /\ pc = "done" => Len(out) = SumSeq(seg_lens)

C1_Witness ==
    /\ pc = "done"
    /\ Len(seg_lens) >= 2
    /\ \A s \in 1..Len(seg_lens) : seg_lens[s] > translate_threshold
    /\ Len(out) = SumSeq(seg_lens)

\* C2: whatever the reply, translate_batch does not fail the batch; an
\* entry whose index is in a matched line gets that line's text, and every
\* other entry keeps its original text.
C2_GracefulReply ==
    /\ error # "KeyError"
    /\ (pc = "write" /\ gemini_client) =>
          LET lines == Split(Strip(reply), NL)
              m(n)  == MatchLine(Strip(lines[n]))
          IN  \A k \in DOMAIN entries :
                 LET hits == {n \in 1..Len(lines) : m(n).matched /\ m(n).index = k}
                 IN  IF hits = {}
                     THEN entries[k].text = Strip(RawOf(k).text)
                     ELSE \E n \in hits : entries[k].text = m(n).text

\* C3: the times of every cue written are the transcriber's times plus
\* the base time of the cue's audio segment.
C3_AbsoluteTimes ==
    \A k \in 1..Len(out) :
        /\ out[k].start_time = add(BaseTimeOf(k), RawOf(k).from)
        /\ out[k].end_time = add(BaseTimeOf(k), RawOf(k).to)

C5_AbortKeepsEarlier ==
    (pc = "aborted" /\ error = "api") =>
        /\ flushed = Len(out)
        /\ Len(out) = MinOf(DOMAIN entries) - 1
        /\ \A k \in 1..Len(out) : out[k].index = k
        /\ ~ENABLED Next

C5_Witness ==
    /\ pc = "aborted"
    /\ error = "api"
    /\ Len(seg_lens) = 1
    /\ Len(out) = translate_threshold
    /\ flushed = translate_threshold

\* the cut times are strictly ascending
Ascending(cuts) ==
    \A a, b \in 1..Len(cuts) : a < b => seconds(cuts[a]) < seconds(cuts[b])

\* the name of the n-th segment file, spelled out
NthName(n) ==
    SubSeq(wav_path, 1, Len(wav_path) - 4) \o <<"-">> \o ToDigits(n)
    \o <<".", "w", "a", "v">>

\* the HH:MM:SS part of a code, and the time an -ss or -to argument means
WholeSeconds(code) == SubSeq(code, 1, Len(code) - 4)
ArgTime(arg) == seconds(TimeCode(Str(arg)).code)

C7_NoCuts ==
    (cut_times = <<>> /\ pc \notin {"start"}) =>
        /\ trims = <<>>
        /\ Len(yielded) <= 1
        /\ \A n \in 1..Len(yielded) :
              yielded[n] = [base_time |-> ZeroCode, path |-> wav_path]
        /\ pc = "done" => Len(yielded) = 1

C7_Witness ==
    /\ cut_times = <<>>
    /\ pc = "done"
    /\ Len(yielded) = 1
    /\ trims = <<>>

\* C8 as claimed: without an API key no translation call is made and the
\* text of every cue written is the text of its transcript segment.
C8_TextAsTranscribed ==
    gemini_api_key = <<>> =>
        /\ calls = 0
        /\ \A k \in 1..Len(out) : out[k].text = RawOf(k).text

\* C8 as amended: without an API key no translation call is made and the
\* text of every cue written is the text of its transcript segment with
\* leading and trailing whitespace removed.
C8_TextStripped ==
    gemini_api_key = <<>> =>
        /\ calls = 0
        /\ \A k \in 1..Len(out) :
              LET raw  == RawOf(k).text
                  keep == {c \in 1..Len(raw) : raw[c] \notin Whitespace}
              IN  /\ keep # {}
                  /\ out[k].text = SubSeq(raw, MinOf(keep), MaxOf(keep))

C8_Witness ==
    /\ gemini_api_key = <<>>
    /\ pc = "done"
    /\ calls = 0
    /\ Len(out) > translate_threshold

====
